---- MODULE Spec2Model ----
(***************************************************************************)
(* Model of the VLC Remote media-player entity (class VlcServer) in its    *)
(* two revisions:                                                          *)
(*   "sync"  : src/__init__.py                                             *)
(*   "async" : src/custom_components/vlc-remote/media_player.py            *)
(*                                                                         *)
(* Python values are represented as follows.                               *)
(*   - a mapping decoded from XML is a record with one field per key the   *)
(*     code reads; an absent key and a key whose value is None behave the  *)
(*     same under dict.get, and both are written NoText (string leaves),   *)
(*     NoDigits (numeric leaves) or shape "absent" (information);          *)
(*   - the text of a numeric leaf is a sequence of characters, parsed by   *)
(*     PyInt as Python's int() does;                                       *)
(*   - a float is an exact fraction <<numerator, denominator>> in lowest   *)
(*     terms (every float the program computes here is k/256 or an input   *)
(*     level times the power of two 256, so no rounding error occurs).     *)
(***************************************************************************)
EXTENDS Integers, Sequences, FiniteSets, TLC

VARIABLES
    rev,             \* which revision this entity is an instance of
    status,          \* self._status
    volume,          \* self._volume
    muted,           \* self._muted
    state,           \* self._state
    media_position,  \* self._media_position
    media_duration,  \* self._media_duration
    media_metadata,  \* self._media_metadata
    lastOp,          \* history: the last operation called, what it sent, what it raised
    upc,             \* position of a running update(): "idle", "fetching", "fetched"
    ubuf,            \* the mapping that running update() got from fetch_data
    cpc,             \* position of a running command: "idle", "sending", "sent"
    cop,             \* the running command
    inflight,        \* number of HTTP requests sent and not yet answered
    sentSince,       \* history: a command was completed since ubuf was fetched
    staleWrite       \* history: an update() wrote values fetched before a completed command

vars == <<rev, status, volume, muted, state, media_position, media_duration,
          media_metadata, lastOp, upc, ubuf, cpc, cop, inflight, sentSince,
          staleWrite>>

entity == <<status, volume, muted, state, media_position, media_duration,
            media_metadata>>

threads == <<upc, ubuf, cpc, cop, inflight, sentSince, staleWrite>>

-----------------------------------------------------------------------------
(* Bounds of the model *)

\* set_volume_level is called with the levels 0, 1/2, 1 and k/LevelDen
LevelDen == 3

-----------------------------------------------------------------------------
(* Program constants *)

\* the divisor of the raw VLC volume
VolumeScale == 256

STATE_PLAYING == "playing"
STATE_PAUSED == "paused"
STATE_IDLE == "idle"

\* Python's None where a string, a bool or an int is expected
PyNone == "<None>"
PyTrue == "True"
PyFalse == "False"
NoInt == -1
\* the empty dict {} that the asynchronous __init__ stores in self._state
EmptyDictState == "<{}>"
\* an absent or empty XML leaf: dict.get gives None
NoText == "<None>"
NoDigits == <<>>
\* self._volume = None
NoVolume == <<0, 0>>

Digit == {"0", "1", "2", "3", "4", "5", "6", "7", "8", "9"}

DigitVal(c) ==
    CASE c = "0" -> 0 [] c = "1" -> 1 [] c = "2" -> 2 [] c = "3" -> 3
      [] c = "4" -> 4 [] c = "5" -> 5 [] c = "6" -> 6 [] c = "7" -> 7
      [] c = "8" -> 8 [] c = "9" -> 9

DigitChar(d) ==
    CASE d = 0 -> "0" [] d = 1 -> "1" [] d = 2 -> "2" [] d = 3 -> "3"
      [] d = 4 -> "4" [] d = 5 -> "5" [] d = 6 -> "6" [] d = 7 -> "7"
      [] d = 8 -> "8" [] d = 9 -> "9"

RECURSIVE DigitsValue(_)
DigitsValue(t) ==
    IF Len(t) = 0 THEN 0
    ELSE 10 * DigitsValue(SubSeq(t, 1, Len(t) - 1)) + DigitVal(t[Len(t)])

\* int(x) for x None or the text of an XML leaf
PyInt(t) ==
    IF t = NoDigits THEN [exc |-> "TypeError", val |-> NoInt]
    ELSE IF \A i \in 1..Len(t) : t[i] \in Digit
         THEN [exc |-> "none", val |-> DigitsValue(t)]
         ELSE [exc |-> "ValueError", val |-> NoInt]

\* str(n) for an int n >= 0
RECURSIVE PyStr(_)
PyStr(n) ==
    IF n < 10 THEN <<DigitChar(n)>>
    ELSE Append(PyStr(n \div 10), DigitChar(n % 10))

RECURSIVE Gcd(_, _)
Gcd(a, b) == IF b = 0 THEN a ELSE Gcd(b, a % b)

\* the float n/d (d > 0, n >= 0)
Frac(n, d) == <<n \div Gcd(n, d), d \div Gcd(n, d)>>

-----------------------------------------------------------------------------
(* The values xmltodict.parse(...).get("root") can yield *)

Item(n, t) == [name |-> n, text |-> t]

\* self._media_metadata = {}
EmptyMetadata == [shape |-> "empty", items |-> <<>>]

\* the info list of the documented example
MetaTitleArtist ==
    [shape |-> "list",
     items |-> <<Item("title", "Song A"), Item("artist", "Artist B")>>]

\* an info list as VLC sends it for a stream: no artist, a showName and a filename
MetaShow ==
    [shape |-> "list",
     items |-> <<Item("filename", "file.mp3"), Item("showName", "Show C")>>]

Category(n, has, inf) == [name |-> n, hasinfo |-> has, info |-> inf]

NoInformation == [shape |-> "absent", cats |-> <<>>]

Informations ==
    { NoInformation,
      \* a list holding the one "meta" category
      [shape |-> "list", cats |-> <<Category("meta", TRUE, MetaTitleArtist)>>],
      \* a stream category and a "meta" category
      [shape |-> "list",
       cats |-> <<Category("Stream 0", TRUE, MetaShow),
                  Category("meta", TRUE, MetaShow)>>],
      \* categories, none of them "meta"
      [shape |-> "list",
       cats |-> <<Category("Stream 0", TRUE, MetaShow),
                  Category("Stream 1", FALSE, EmptyMetadata)>>],
      \* a single <category> element: xmltodict yields a dict, not a list
      [shape |-> "single", cats |-> <<Category("meta", TRUE, MetaTitleArtist)>>] }

RawStates == {NoText, "playing", "paused", "stopped", "buffering"}

RawTimes == {NoDigits, <<"7">>}

RawLengths == {NoDigits, <<"9">>}

RawVolumes == {NoDigits, <<"0">>, <<"1", "2", "8">>, <<"2", "5", "6">>, <<"x">>}

\* the empty mapping {}
EmptyMapping ==
    [type |-> "dict", state |-> NoText, time |-> NoDigits, position |-> NoDigits,
     length |-> NoDigits, volume |-> NoDigits, information |-> NoInformation]

\* .get("root") when the document's root element is not <root>
NoneData == [EmptyMapping EXCEPT !.type = "NoneType"]

\* .get("root") when <root> holds text only
StrData == [EmptyMapping EXCEPT !.type = "str"]

\* a complete status document: every key the code reads, nothing malformed
Complete ==
    [type |-> "dict", state |-> "playing", time |-> <<"7">>, position |-> <<"7">>,
     length |-> <<"9">>, volume |-> <<"1", "2", "8">>, information |-> NoInformation]

\* the <root> mappings VLC answers with. <time> and <position> are sent
\* together (each revision reads one of the two). Each mapping varies one
\* group of keys of a complete document: the numeric leaves, the state with
\* the position, or the information with the position
Statuses ==
    { [Complete EXCEPT !.time = t, !.position = t, !.length = l, !.volume = v] :
        t \in RawTimes, l \in RawLengths, v \in RawVolumes }
    \cup { [Complete EXCEPT !.state = s, !.time = t, !.position = t] :
        s \in RawStates, t \in RawTimes }
    \cup { [Complete EXCEPT !.information = i, !.time = t, !.position = t] :
        i \in Informations, t \in RawTimes }

\* what requests.get and xmltodict.parse can do on one call
Responses ==
    { [get |-> "raises", code |-> 0, parse |-> "none", root |-> EmptyMapping],
      [get |-> "ok", code |-> 404, parse |-> "none", root |-> EmptyMapping],
      [get |-> "ok", code |-> 200, parse |-> "raises", root |-> EmptyMapping],
      [get |-> "ok", code |-> 200, parse |-> "ok", root |-> NoneData],
      [get |-> "ok", code |-> 200, parse |-> "ok", root |-> StrData] }
    \cup { [get |-> "ok", code |-> 200, parse |-> "ok", root |-> s] : s \in Statuses }

-----------------------------------------------------------------------------
(* fetch_data *)

\* the URL path each revision formats
UrlStem(r) == IF r = "sync" THEN "/requests.status.xml" ELSE "/requests/status.xml"

\* the request fetch_data sends; command <<>> is command=None
Request(r, command) == [path |-> UrlStem(r), command |-> command]

\* the exception classes that derive from Exception
ExceptionClasses == {"ConnectionError", "AttributeError", "ExpatError"}

\* the first try block of fetch_data: the exception raised in it ("none" when
\* it runs to its end) and the value it leaves in data
FetchTry(resp) ==
    IF resp.get = "raises"
    THEN [exc |-> "ConnectionError", data |-> EmptyMapping]
    ELSE IF resp.code # 200
    \* the log call reads req.status, which a requests.Response does not have
    THEN [exc |-> "AttributeError", data |-> EmptyMapping]
    ELSE IF resp.parse = "raises"
    THEN [exc |-> "ExpatError", data |-> EmptyMapping]
    ELSE [exc |-> "none", data |-> resp.root]

\* the handler as `except requests.RequestException` would make it
FetchCatchesRequestErrors(exc) == exc = "ConnectionError"

\* except Exception as error: return {}
FetchCatches(exc) == exc \in ExceptionClasses

\* fetch_data, run to its end: the value it returns and the exception that
\* escapes it ("none" when it returns)
FetchData(resp) ==
    LET t == FetchTry(resp) IN
    IF t.exc # "none"
    THEN IF FetchCatches(t.exc)
         THEN [exc |-> "none", ret |-> EmptyMapping]
         ELSE [exc |-> t.exc, ret |-> EmptyMapping]
    ELSE [exc |-> "none", ret |-> t.data]     \* second try: return data

-----------------------------------------------------------------------------
(* update *)

\* for info in status["information"]["category"]:
\*     if info.get("@name") == "meta": self._media_metadata = info["info"]
\* from the i-th category on, with cur the metadata assigned so far; a
\* category without "info" raises KeyError, which ends the loop
RECURSIVE ScanCategories(_, _, _)
ScanCategories(cats, i, cur) ==
    IF i > Len(cats) THEN cur
    ELSE IF cats[i].name = "meta"
         THEN IF cats[i].hasinfo
              THEN ScanCategories(cats, i + 1, cats[i].info)
              ELSE cur
         ELSE ScanCategories(cats, i + 1, cur)

\* self._media_metadata after the try block of update
MetadataAfter(data, cur) ==
    IF data.information.shape = "absent" THEN cur
    ELSE IF data.information.shape = "list"
         THEN ScanCategories(data.information.cats, 1, cur)
         \* iterating a dict yields its keys; str has no .get: swallowed
         ELSE cur

\* self._state after the if/elif chain on status.get("state")
StateAfter(r, raw, cur) ==
    IF raw = "playing" THEN STATE_PLAYING
    ELSE IF raw = "paused" THEN STATE_PAUSED
    ELSE IF r = "sync" THEN STATE_IDLE
    ELSE IF raw = "stopped" THEN STATE_IDLE
    ELSE cur

\* status.get("time") in the synchronous revision, status.get("position")
\* in the asynchronous one
RawPosition(r, data) == IF r = "sync" THEN data.time ELSE data.position

\* the statements of update, in order
StageNo(at) ==
    CASE at = "fetch" -> 0 [] at = "in" -> 1 [] at = "get" -> 2
      [] at = "position" -> 3 [] at = "length" -> 4 [] at = "volume" -> 5
      [] at = "return" -> 6

\* where update stops on the value f that fetch_data produced, and the
\* exception that escapes there ("none" at "return")
UpdateStop(r, f) ==
    IF f.exc # "none" THEN [at |-> "fetch", exc |-> f.exc]
    ELSE IF f.ret.type = "NoneType" THEN [at |-> "in", exc |-> "TypeError"]
    ELSE IF f.ret.type = "str" THEN [at |-> "get", exc |-> "AttributeError"]
    ELSE IF PyInt(RawPosition(r, f.ret)).exc # "none"
         THEN [at |-> "position", exc |-> PyInt(RawPosition(r, f.ret)).exc]
    ELSE IF PyInt(f.ret.length).exc # "none"
         THEN [at |-> "length", exc |-> PyInt(f.ret.length).exc]
    ELSE IF PyInt(f.ret.volume).exc # "none"
         THEN [at |-> "volume", exc |-> PyInt(f.ret.volume).exc]
    ELSE [at |-> "return", exc |-> "none"]

\* the statement at stage `at` was executed to its end
Passed(stop, at) == StageNo(stop.at) > StageNo(at)

\* int(status.get("volume")) / 256
VolumeOf(raw) == Frac(PyInt(raw).val, VolumeScale)

\* int(status.get("volume")) == 0
MutedOf(raw) == IF PyInt(raw).val = 0 THEN PyTrue ELSE PyFalse

\* the entity's attributes, as a record
Fields ==
    [status |-> status, media_metadata |-> media_metadata, state |-> state,
     media_position |-> media_position, media_duration |-> media_duration,
     volume |-> volume, muted |-> muted]

\* the attributes after update() ran on an entity of revision r with
\* attributes cur, when fetch_data produced f: each statement before the one
\* that raises has assigned
UpdateResult(r, cur, f) ==
    LET data == f.ret
        stop == UpdateStop(r, f)
    IN  [status |-> IF Passed(stop, "fetch") THEN data ELSE cur.status,
         media_metadata |-> IF Passed(stop, "in")
                            THEN MetadataAfter(data, cur.media_metadata)
                            ELSE cur.media_metadata,
         state |-> IF Passed(stop, "get")
                   THEN StateAfter(r, data.state, cur.state)
                   ELSE cur.state,
         media_position |-> IF Passed(stop, "position")
                            THEN PyInt(RawPosition(r, data)).val
                            ELSE cur.media_position,
         media_duration |-> IF Passed(stop, "length")
                            THEN PyInt(data.length).val
                            ELSE cur.media_duration,
         volume |-> IF Passed(stop, "volume") THEN VolumeOf(data.volume) ELSE cur.volume,
         muted |-> IF Passed(stop, "volume") THEN MutedOf(data.volume) ELSE cur.muted]

\* the entity's attributes become those of the record n
Assign(n) ==
    /\ status' = n.status
    /\ media_metadata' = n.media_metadata
    /\ state' = n.state
    /\ media_position' = n.media_position
    /\ media_duration' = n.media_duration
    /\ volume' = n.volume
    /\ muted' = n.muted

\* which of its outcomes a response is
ResponseKind(resp) ==
    IF resp.get = "raises" THEN "connection error"
    ELSE IF resp.code # 200 THEN "not 200"
    ELSE IF resp.parse = "raises" THEN "parse error"
    ELSE "ok"

NoLevel == <<0, 1>>

\* history record of a call: the operation, the exception that escaped it,
\* the requests it sent, its arguments, and what its fetch_data was answered
\* and produced ("no fetch" when fetch_data did not run)
Op(name, exc, sent, level, mute, kind, fetched) ==
    [op |-> name, exc |-> exc, sent |-> sent, level |-> level, mute |-> mute,
     response |-> kind, fetched |-> fetched]

NotFetched == [exc |-> "none", ret |-> EmptyMapping]

Sequential == upc = "idle" /\ cpc = "idle"

\* update(), called while nothing else runs
Update(resp) ==
    LET f == FetchData(resp) IN
    /\ Sequential
    /\ Assign(UpdateResult(rev, Fields, f))
    /\ lastOp' = Op("update", UpdateStop(rev, f).exc, <<Request(rev, <<>>)>>,
                    NoLevel, PyNone, ResponseKind(resp), f)
    /\ UNCHANGED <<rev, threads>>

-----------------------------------------------------------------------------
(* read accessors: each yields the value returned, or the exception raised *)

Returns(v) == [exc |-> "none", val |-> v]
Raises(e) == [exc |-> e, val |-> PyNone]

\* the #text of the last item of md named n, or dflt when there is none
RECURSIVE LastText(_, _, _, _)
LastText(items, i, n, dflt) ==
    IF i > Len(items) THEN dflt
    ELSE LastText(items, i + 1, n,
                  IF items[i].name = n THEN items[i].text ELSE dflt)

Unbound == "<unbound>"

\* instances have no attribute _media
HasMediaAttribute == FALSE

\* media_title
MediaTitle ==
    IF rev = "sync"
    THEN IF ~HasMediaAttribute
         THEN Returns("None")       \* AttributeError in the try: return filename
         ELSE IF media_metadata.shape = "list"
         THEN LET title == LastText(media_metadata.items, 1, "title", Unbound)
                  filename == LastText(media_metadata.items, 1, "filename", "None")
              IN  Returns(IF title = Unbound THEN filename ELSE title)
         ELSE Returns("None")
    \* self._state.get("title", None): a dict before the first state
    \* assignment, a str afterwards
    ELSE IF state = EmptyDictState THEN Returns(PyNone)
         ELSE Raises("AttributeError")

\* media_artist
MediaArtist ==
    IF rev = "sync"
    THEN IF media_metadata.shape = "list"
         THEN LET artist == LastText(media_metadata.items, 1, "showName", Unbound)
              IN  Returns(IF artist = Unbound THEN "None" ELSE artist)
         \* {}: the loop is skipped and artist is unbound; a dict: item["@name"]
         \* on a key raises TypeError
         ELSE Returns("None")
    ELSE IF state = EmptyDictState THEN Returns(PyNone)
         ELSE Raises("AttributeError")

\* state, volume_level, is_volume_muted, media_duration, media_position
State == state
VolumeLevel == volume
IsVolumeMuted == muted
MediaDuration == media_duration
MediaPosition == media_position

-----------------------------------------------------------------------------
(* commands *)

\* the statement self.fetch_data(command=c) in a plain def: in the
\* synchronous revision it runs fetch_data; in the asynchronous one
\* fetch_data is a coroutine function, so the call builds a coroutine that
\* is never awaited and nothing is sent
CallFetch(r, c, resp) ==
    IF r = "sync"
    THEN [exc |-> FetchData(resp).exc, sent |-> <<Request(r, c)>>,
          response |-> ResponseKind(resp), fetched |-> FetchData(resp)]
    ELSE [exc |-> "none", sent |-> <<>>, response |-> "no fetch",
          fetched |-> NotFetched]

\* the levels set_volume_level is called with
Levels == {Frac(k, LevelDen) : k \in 0..LevelDen} \cup {Frac(1, 2)}

\* the level scaled by 255 instead of 256
RawVolumeOfScaled255(level) == (level[1] * (VolumeScale - 1)) \div level[2]

\* int(volume * 256)
RawVolumeOf(level) == (level[1] * VolumeScale) \div level[2]

\* "volume&val={}".format(text)
VolumeCommand(text) == <<"volume&val=">> \o text

MuteNumeric(mute) == IF mute = PyTrue THEN <<"0">> ELSE <<"2", "5", "6">>

PlayCommand(r) == IF r = "sync" THEN <<"pl_pause">> ELSE <<"pl_play">>

\* the responses a command's request is answered with (the value
\* fetch_data returns to a command is discarded)
CommandResponses ==
    {resp \in Responses : resp.get = "raises" \/ resp.root = Complete}

MuteVolume(mute, resp) ==
    LET c == CallFetch(rev, VolumeCommand(MuteNumeric(mute)), resp) IN
    /\ Sequential
    /\ rev = "sync"
    /\ muted' = IF c.exc = "none" THEN mute ELSE muted
    /\ lastOp' = Op("mute_volume", c.exc, c.sent, NoLevel, mute, c.response, c.fetched)
    /\ UNCHANGED <<rev, status, volume, state, media_position, media_duration,
                   media_metadata, threads>>

SetVolumeLevel(level, resp) ==
    LET c == CallFetch(rev, VolumeCommand(PyStr(RawVolumeOf(level))), resp) IN
    /\ Sequential
    /\ rev = "sync"
    /\ volume' = IF c.exc = "none" THEN level ELSE volume
    /\ lastOp' = Op("set_volume_level", c.exc, c.sent, level, PyNone, c.response,
                    c.fetched)
    /\ UNCHANGED <<rev, status, muted, state, media_position, media_duration,
                   media_metadata, threads>>

\* the table with media_stop assigning what media_pause assigns
StateCommandCopied(name) ==
    CASE name = "media_play" -> [command |-> PlayCommand(rev), state |-> STATE_PLAYING]
      [] name = "media_pause" -> [command |-> <<"pl_pause">>, state |-> STATE_PAUSED]
      [] name = "media_stop" -> [command |-> <<"pl_stop">>, state |-> STATE_PAUSED]

\* media_play, media_pause, media_stop: the command sent and the state set
StateCommand(name) ==
    CASE name = "media_play" -> [command |-> PlayCommand(rev), state |-> STATE_PLAYING]
      [] name = "media_pause" -> [command |-> <<"pl_pause">>, state |-> STATE_PAUSED]
      [] name = "media_stop" -> [command |-> <<"pl_stop">>, state |-> STATE_IDLE]

MediaCommand(name, resp) ==
    LET c == CallFetch(rev, StateCommand(name).command, resp) IN
    /\ Sequential
    /\ state' = IF c.exc = "none" THEN StateCommand(name).state ELSE state
    /\ lastOp' = Op(name, c.exc, c.sent, NoLevel, PyNone, c.response, c.fetched)
    /\ UNCHANGED <<rev, status, volume, muted, media_position, media_duration,
                   media_metadata, threads>>

MediaPlay(resp) == MediaCommand("media_play", resp)
MediaPause(resp) == MediaCommand("media_pause", resp)
MediaStop(resp) == MediaCommand("media_stop", resp)

-----------------------------------------------------------------------------
(* update() and a command called from two threads of the host: each runs   *)
(* statement by statement, and nothing in either revision makes one wait   *)
(* for the other                                                           *)

\* the command text a command sends
CommandText(name, level, mute) ==
    IF name = "set_volume_level" THEN VolumeCommand(PyStr(RawVolumeOf(level)))
    ELSE IF name = "mute_volume" THEN VolumeCommand(MuteNumeric(mute))
    ELSE StateCommand(name).command

NoCall == [exc |-> "none", sent |-> <<>>, response |-> "no fetch", fetched |-> NotFetched]

NoCommand ==
    [name |-> "none", level |-> NoLevel, mute |-> PyNone, afterFetch |-> FALSE,
     call |-> NoCall]

\* the responses the two-thread runs draw from
ThreadResponses ==
    {resp \in Responses :
        \/ resp.get = "raises"
        \/ resp.root \in {Complete, [Complete EXCEPT !.state = "paused"],
                          [Complete EXCEPT !.volume = <<"0">>]}}

\* update: requests.get is called
UpdateBegin ==
    /\ upc = "idle"
    /\ upc' = "fetching"
    /\ inflight' = inflight + 1
    /\ UNCHANGED <<rev, entity, lastOp, ubuf, cpc, cop, sentSince, staleWrite>>

\* update: fetch_data returns
UpdateReceive(resp) ==
    /\ upc = "fetching"
    /\ upc' = "fetched"
    /\ ubuf' = FetchData(resp)
    /\ inflight' = inflight - 1
    /\ sentSince' = FALSE
    /\ UNCHANGED <<rev, entity, lastOp, cpc, cop, staleWrite>>

\* update: the statements after fetch_data
UpdateApply ==
    LET n == UpdateResult(rev, Fields, ubuf) IN
    /\ upc = "fetched"
    /\ Assign(n)
    /\ upc' = "idle"
    /\ staleWrite' = (staleWrite \/
                        (sentSince /\ <<n.state, n.volume, n.muted>> #
                                      <<state, volume, muted>>))
    /\ sentSince' = FALSE
    /\ lastOp' = Op("update", UpdateStop(rev, ubuf).exc, <<Request(rev, <<>>)>>,
                    NoLevel, PyNone, "ok", ubuf)
    /\ UNCHANGED <<rev, ubuf, cpc, cop, inflight>>

\* a command: its self.fetch_data(command=...) statement starts
CommandBegin(name, level, mute) ==
    /\ cpc = "idle"
    /\ name \in {"set_volume_level", "mute_volume"} => rev = "sync"
    /\ cop' = [name |-> name, level |-> level, mute |-> mute,
               afterFetch |-> (upc = "fetched"), call |-> NoCall]
    /\ IF rev = "sync"
       THEN cpc' = "sending" /\ inflight' = inflight + 1
       ELSE cpc' = "sent" /\ inflight' = inflight
    /\ UNCHANGED <<rev, entity, lastOp, upc, ubuf, sentSince, staleWrite>>

\* a command: fetch_data returns
CommandReceive(resp) ==
    /\ cpc = "sending"
    /\ cpc' = "sent"
    /\ cop' = [cop EXCEPT !.call =
                 CallFetch(rev, CommandText(cop.name, cop.level, cop.mute), resp)]
    /\ inflight' = inflight - 1
    /\ UNCHANGED <<rev, entity, lastOp, upc, ubuf, sentSince, staleWrite>>

\* a command: the assignment after fetch_data
CommandApply ==
    /\ cpc = "sent"
    /\ cpc' = "idle"
    /\ cop' = NoCommand
    /\ state' = IF cop.name \in {"media_play", "media_pause", "media_stop"}
                   /\ cop.call.exc = "none"
                THEN StateCommand(cop.name).state ELSE state
    /\ volume' = IF cop.name = "set_volume_level" /\ cop.call.exc = "none"
                 THEN cop.level ELSE volume
    /\ muted' = IF cop.name = "mute_volume" /\ cop.call.exc = "none"
                THEN cop.mute ELSE muted
    /\ sentSince' = (sentSince \/ (cop.afterFetch /\ upc = "fetched"))
    /\ lastOp' = Op(cop.name, cop.call.exc, cop.call.sent, cop.level, cop.mute,
                    cop.call.response, cop.call.fetched)
    /\ UNCHANGED <<rev, status, media_position, media_duration, media_metadata,
                   upc, ubuf, inflight, staleWrite>>

-----------------------------------------------------------------------------
(* the entity as constructed, and its sequential use *)

Revisions == {"sync", "async"}

Init ==
    /\ rev \in Revisions
    /\ status = EmptyMapping
    /\ volume = NoVolume
    /\ muted = PyNone
    /\ state = IF rev = "sync" THEN PyNone ELSE EmptyDictState
    /\ media_position = NoInt
    /\ media_duration = NoInt
    /\ media_metadata = EmptyMetadata
    /\ lastOp = Op("__init__", "none", <<>>, NoLevel, PyNone, "no fetch", NotFetched)
    /\ upc = "idle"
    /\ ubuf = NotFetched
    /\ cpc = "idle"
    /\ cop = NoCommand
    /\ inflight = 0
    /\ sentSince = FALSE
    /\ staleWrite = FALSE

Next ==
    \/ \E resp \in Responses : Update(resp)
    \/ \E resp \in CommandResponses : MediaPlay(resp)
    \/ \E resp \in CommandResponses : MediaPause(resp)
    \/ \E resp \in CommandResponses : MediaStop(resp)
    \/ \E level \in Levels, resp \in CommandResponses : SetVolumeLevel(level, resp)
    \/ \E mute \in {PyTrue, PyFalse}, resp \in CommandResponses : MuteVolume(mute, resp)

Spec == Init /\ [][Next]_vars

NextThreads ==
    \/ UpdateBegin
    \/ \E resp \in ThreadResponses : UpdateReceive(resp)
    \/ UpdateApply
    \/ \E name \in {"media_play", "media_pause", "media_stop"} :
          CommandBegin(name, NoLevel, PyNone)
    \/ \E level \in Levels : CommandBegin("set_volume_level", level, PyNone)
    \/ \E mute \in {PyTrue, PyFalse} : CommandBegin("mute_volume", NoLevel, mute)
    \/ \E resp \in CommandResponses : CommandReceive(resp)
    \/ CommandApply

SpecThreads == Init /\ [][NextThreads]_vars

-----------------------------------------------------------------------------
(* Properties *)

FailureKinds == {"connection error", "not 200", "parse error"}

\* C1: whenever the response is not 200, or the request or the parse raises,
\* fetch_data returns the empty mapping and no exception escapes it; update
\* then stores the empty mapping. Both revisions.
C1_FetchFailureGivesEmptyMapping ==
    lastOp.response \in FailureKinds =>
        /\ lastOp.fetched.exc = "none"
        /\ lastOp.fetched.ret = EmptyMapping
        /\ lastOp.op = "update" => status = EmptyMapping

\* C1 witness: an asynchronous update() whose request was answered 404, after
\* an earlier poll had stored a status
C1_Witness ==
    /\ rev = "async"
    /\ lastOp.op = "update"
    /\ lastOp.response = "not 200"
    /\ status = EmptyMapping
    /\ volume # NoVolume

\* C2 (as claimed): update() never raises, and when the fetched mapping lacks
\* the time/position, length or volume key it leaves position 0, duration 0,
\* volume 0.0 and muted true
C2_UpdateNeverRaises ==
    lastOp.op = "update" =>
        /\ lastOp.exc = "none"
        /\ (status.type = "dict" /\
            (RawPosition(rev, status) = NoDigits \/ status.length = NoDigits
               \/ status.volume = NoDigits)) =>
                /\ MediaPosition = 0
                /\ MediaDuration = 0
                /\ VolumeLevel = Frac(0, 1)
                /\ IsVolumeMuted = PyTrue

\* the state the claim assigns to a raw state value
ClaimedState(raw) ==
    IF raw = "playing" THEN STATE_PLAYING
    ELSE IF raw = "paused" THEN STATE_PAUSED
    ELSE STATE_IDLE

\* C3 (as claimed): after update() on a mapping, the state is decided by the
\* raw state value of that poll alone: Playing, Paused, and Idle for anything
\* else or an absent key
C3_StateDecidedByRawState ==
    (lastOp.op = "update" /\ lastOp.fetched.exc = "none" /\ status.type = "dict") =>
        /\ State = ClaimedState(status.state)
        /\ State \in {STATE_PLAYING, STATE_PAUSED, STATE_IDLE}

\* the status holds a "meta" category whose info list has a title and an artist
HasTitleAndArtist(data) ==
    /\ data.information.shape = "list"
    /\ \E i \in 1..Len(data.information.cats) :
          /\ data.information.cats[i].name = "meta"
          /\ data.information.cats[i].hasinfo
          /\ data.information.cats[i].info = MetaTitleArtist

\* C4 (as claimed): after a poll with a "meta" category holding title and
\* artist the accessors return them; with no "meta" category ever seen both
\* return "None"; neither accessor raises
C4_TitleAndArtist ==
    /\ MediaTitle.exc = "none"
    /\ MediaArtist.exc = "none"
    /\ (lastOp.op = "update" /\ HasTitleAndArtist(status)) =>
          /\ MediaTitle.val = "Song A"
          /\ MediaArtist.val = "Artist B"
    /\ media_metadata = EmptyMetadata =>
          /\ MediaTitle.val = "None"
          /\ MediaArtist.val = "None"

\* round(n/d) as Python 3 rounds: halves go to the even integer
PyRound(n, d) ==
    LET q == n \div d
        r == n % d
    IN  IF 2 * r < d THEN q
        ELSE IF 2 * r > d THEN q + 1
        ELSE IF q % 2 = 0 THEN q ELSE q + 1

\* the one request of the last call carries the command volume&val=<n>
SentVolume(n) ==
    /\ Len(lastOp.sent) = 1
    /\ Len(lastOp.sent[1].command) > 1
    /\ Head(lastOp.sent[1].command) = "volume&val="
    /\ PyInt(Tail(lastOp.sent[1].command)) = [exc |-> "none", val |-> n]

\* mute_volume(true) sends volume&val=0 and mute_volume(false) volume&val=256
MuteSendsZeroOrFull ==
    lastOp.op = "mute_volume" =>
        SentVolume(IF lastOp.mute = PyTrue THEN 0 ELSE VolumeScale)

\* C5 (as claimed): set_volume_level(level) sends volume&val=N with
\* N = round(level * 256)
C5_VolumeCommandRounds ==
    /\ lastOp.op = "set_volume_level" =>
          SentVolume(PyRound(lastOp.level[1] * VolumeScale, lastOp.level[2]))
    /\ MuteSendsZeroOrFull

\* C5 (amended): set_volume_level(level) sends volume&val=N with N the
\* integer part of level * 256 (N <= level * 256 < N + 1), an integer in
\* 0..256; level 1/2 gives 128; mute_volume sends 0 or 256
C5_VolumeCommandTruncates ==
    /\ lastOp.op = "set_volume_level" =>
          \E n \in 0..VolumeScale :
              /\ n * lastOp.level[2] <= lastOp.level[1] * VolumeScale
              /\ lastOp.level[1] * VolumeScale < (n + 1) * lastOp.level[2]
              /\ SentVolume(n)
    /\ (lastOp.op = "set_volume_level" /\ lastOp.level = Frac(1, 2)) => SentVolume(128)
    /\ MuteSendsZeroOrFull

\* C5 witness: set_volume_level was called with a level for which level * 256
\* is not an integer
C5_Witness ==
    /\ lastOp.op = "set_volume_level"
    /\ (lastOp.level[1] * VolumeScale) % lastOp.level[2] # 0
    /\ Len(lastOp.sent) = 1

\* C6: once a command has returned, and before the next update(), the
\* matching accessor shows the value the command set, whatever the answer to
\* its request was
C6_OptimisticValueReadable ==
    /\ lastOp.op = "media_play" => State = STATE_PLAYING
    /\ lastOp.op = "media_pause" => State = STATE_PAUSED
    /\ lastOp.op = "media_stop" => State = STATE_IDLE
    /\ lastOp.op = "set_volume_level" => VolumeLevel = lastOp.level
    /\ lastOp.op = "mute_volume" => IsVolumeMuted = lastOp.mute

\* C6 witness: media_pause returned after its request failed, while the last
\* poll had reported "playing"
C6_Witness ==
    /\ lastOp.op = "media_pause"
    /\ lastOp.response = "connection error"
    /\ status.state = "playing"
    /\ State = STATE_PAUSED

\* the path of the VLC status endpoint
StatusEndpoint == "/requests/status.xml"

\* C7 (as claimed): every media_play, media_pause or media_stop sends exactly
\* one GET to the status endpoint carrying its command
C7_CommandSendsOneRequest ==
    lastOp.op \in {"media_play", "media_pause", "media_stop"} =>
        /\ Len(lastOp.sent) = 1
        /\ lastOp.sent[1].path = StatusEndpoint
        /\ lastOp.op = "media_play" =>
              lastOp.sent[1].command \in {<<"pl_play">>, <<"pl_pause">>}
        /\ lastOp.op = "media_pause" => lastOp.sent[1].command = <<"pl_pause">>
        /\ lastOp.op = "media_stop" => lastOp.sent[1].command = <<"pl_stop">>

\* the attributes a newly constructed entity of revision r has
Fresh(r) ==
    [status |-> EmptyMapping, media_metadata |-> EmptyMetadata,
     state |-> IF r = "sync" THEN PyNone ELSE EmptyDictState,
     media_position |-> NoInt, media_duration |-> NoInt,
     volume |-> NoVolume, muted |-> PyNone]

\* C8 (as claimed): after any update() the attributes are decided by that
\* poll alone, so they are what the same poll gives on a new entity
C8_ReplacedInFull ==
    lastOp.op = "update" => Fields = UpdateResult(rev, Fresh(rev), lastOp.fetched)

\* C9 (as claimed): after update() returned on a raw volume v in 0..256 the level is
\* v/256 and muted is (v = 0); and whenever both are set, muted is true
\* exactly when the level is 0
C9_MuteMatchesVolume ==
    /\ (lastOp.op = "update" /\ lastOp.exc = "none"
          /\ PyInt(status.volume).exc = "none"
          /\ PyInt(status.volume).val \in 0..VolumeScale) =>
             /\ VolumeLevel = Frac(PyInt(status.volume).val, VolumeScale)
             /\ IsVolumeMuted =
                  (IF PyInt(status.volume).val = 0 THEN PyTrue ELSE PyFalse)
    /\ (VolumeLevel # NoVolume /\ IsVolumeMuted # PyNone) =>
          (IsVolumeMuted = PyTrue <=> VolumeLevel = Frac(0, 1))

\* C10 (as claimed): at most one HTTP call of the entity is outstanding at
\* any time, and no update() writes a state, volume or mute value fetched
\* before a command was sent over the value that command set
C10_SingleFlight ==
    /\ inflight <= 1
    /\ ~staleWrite

====
